---- MODULE Spec2Model ----
(***************************************************************************)
(* The WhatsApp listener supervisor of src/src/tools/tools_app.py.         *)
(*                                                                         *)
(* Threads.  FastAPI runs the lifespan context manager and the coroutine   *)
(* _heartbeat_task on the event-loop thread (thread Loop); the endpoints   *)
(* get_whatsapp and whatsapp_health are plain `def` functions, which       *)
(* FastAPI runs in worker threads (threads 1..NumHandlers).  Code that     *)
(* runs on the event-loop thread between two awaits is never interleaved   *)
(* with other event-loop code, but is interleaved with the worker threads. *)
(* A request that is being served when shutdown begins runs to its end.    *)
(*                                                                         *)
(* Steps.  In a worker thread the two operands of                          *)
(* `WHATSAPP_PROC is not None and WHATSAPP_PROC.poll() is None` are two    *)
(* steps, since stop_whatsapp_listener() may store None between them.  On  *)
(* the event-loop thread they are one step: no worker thread ever stores   *)
(* None.  Lines that touch only what no other thread can observe are       *)
(* joined to the step before them.                                         *)
(*                                                                         *)
(* The chat turn of src/src/mcp_server.py (gemini_chat, parse_tool_call,   *)
(* execute_tool) with the model client of                                  *)
(* src/src/ai_brain/groq_integration.py follows the supervisor; it has its *)
(* own specifications (SpecParse, SpecDispatch, SpecChat).                 *)
(***************************************************************************)
EXTENDS Naturals, FiniteSets, Sequences, TLC

\* Number of worker threads serving requests concurrently.
NumHandlers == 2
\* Number of companion processes the operating system lets the model spawn.
MaxSpawns == 2

\* WHATSAPP_PROC = None
None == 0
\* The event-loop thread, which runs lifespan and _heartbeat_task.
Loop == 0
Handlers == 1..NumHandlers
Threads == {Loop} \cup Handlers
Pids == 1..MaxSpawns

VARIABLES
    WHATSAPP_PROC,  \* the global handle: None or the pid of a Popen object
    RESTART_COUNT,  \* the global restart counter
    alive,          \* pids of the spawned processes that are running (poll() is None)
    spawned,        \* number of processes spawned so far (the next pid is spawned + 1)
    entry_exists,   \* whether whatsapp_listener/index.js exists on disk
    phase,          \* lifespan: "startup", "serving", "shutdown", "closed"
    heartbeat,      \* the heartbeat task: "none", "scheduled", "cancelled"
    pc,             \* pc[t]: the line thread t is about to execute
    caller,         \* caller[t]: the function whose frame is at the bottom of t's stack
    outcome,        \* outcome[t]: how t's last start_whatsapp_listener() call ended
    response,       \* response[t]: the HTTP response of t's last request
    h_alive,        \* h_alive[t]: the local `alive` of whatsapp_health (line 288)
    stop_proc,      \* the handle stop_whatsapp_listener() found at line 86
    turn,           \* gemini_chat: the line it is about to execute and its locals
    groq,           \* the GroqIntegration object of the turn (its history)
    calls,          \* the calls the turn has made so far, in order
    tools,          \* LLMToolRegistry.tools: name -> registered function
    schema,         \* LLMToolRegistry.schema: the list of descriptors
    seen_events,    \* api_fetch.seen_events
    seen_tasks,     \* api_fetch.seen_tasks
    outlook,        \* outlook[t]: the GET /outlook request worker thread t serves
    polls,          \* the responses of GET /outlook so far, with the tool that asked
    email_notifications,  \* notification_system_app.email_notifications
    notifications,  \* notifications[t]: get_email_notifications in thread t, its local
    delivered,      \* the responses of GET /notifications/email so far
    polled          \* number of emails the poller has fetched so far

vars == <<WHATSAPP_PROC, RESTART_COUNT, alive, spawned, entry_exists, phase, heartbeat,
          pc, caller, outcome, response, h_alive, stop_proc, turn, groq, calls,
          tools, schema, seen_events, seen_tasks, outlook, polls,
          email_notifications, notifications, delivered, polled>>

\* The state of the supervisor (tools_app.py) and of a chat turn (mcp_server.py).
supervisor_vars == <<WHATSAPP_PROC, RESTART_COUNT, alive, spawned, entry_exists, phase,
                     heartbeat, pc, caller, outcome, response, h_alive, stop_proc>>
chat_vars == <<turn, groq, calls>>
\* The tool registry (function_calling.py), the Microsoft poller (api_fetch.py with
\* GET /outlook) and the email notification service (notification_system_app.py).
registry_vars == <<tools, schema>>
outlook_vars == <<seen_events, seen_tasks, outlook, polls>>
notification_vars == <<email_notifications, notifications, delivered, polled>>
services == <<registry_vars, outlook_vars, notification_vars>>

\* No request to POST /gemini_chat is being served.
no_chat ==
    /\ turn = [pc |-> "none"]
    /\ groq = [history |-> <<>>]
    /\ calls = <<>>

\* LLMToolRegistry(): nothing is registered.
no_registry ==
    /\ tools = <<>>
    /\ schema = <<>>

\* api_fetch just imported and no GET /outlook request being served.
no_outlook ==
    /\ seen_events = {}
    /\ seen_tasks = {}
    /\ outlook = [t \in Handlers |-> [pc |-> "idle"]]
    /\ polls = <<>>

\* The notification service before its poller has fetched anything.
no_notifications ==
    /\ email_notifications = <<>>
    /\ notifications = [t \in Handlers |-> [pc |-> "idle"]]
    /\ delivered = <<>>
    /\ polled = 0

no_services == no_registry /\ no_outlook /\ no_notifications

globals == <<WHATSAPP_PROC, RESTART_COUNT>>
os_state == <<alive, spawned, entry_exists>>
tasks == <<phase, heartbeat>>

\* Popen.poll() is None: the process behind handle p is running.
poll_is_None(p) == p \in alive

Init ==
    /\ WHATSAPP_PROC = None
    /\ RESTART_COUNT = 0
    /\ alive = {}
    /\ spawned = 0
    /\ entry_exists \in BOOLEAN
    /\ phase = "startup"
    /\ heartbeat = "none"
    /\ pc = [t \in Threads |-> IF t = Loop THEN "lifespan_116" ELSE "idle"]
    /\ caller = [t \in Threads |-> IF t = Loop THEN "lifespan" ELSE "none"]
    /\ outcome = [t \in Threads |-> "none"]
    /\ response = [t \in Threads |-> "none"]
    /\ h_alive = [t \in Threads |-> FALSE]
    /\ stop_proc = None
    /\ no_chat
    /\ no_services

(***************************************************************************)
(* start_whatsapp_listener(), lines 41-81, run by thread t.                *)
(***************************************************************************)

\* Where start_whatsapp_listener() returns to: line 117 of lifespan, line 110 of
\* _heartbeat_task, line 258 of get_whatsapp.
return_to(f) ==
    CASE f = "lifespan" -> "lifespan_117"
      [] f = "heartbeat" -> "hb_110"
      [] OTHER -> "gw_258"

\* `return` from start_whatsapp_listener() with the given outcome.
start_return(t, o) ==
    /\ pc' = [pc EXCEPT ![t] = return_to(caller[t])]
    /\ outcome' = [outcome EXCEPT ![t] = o]

\* Line 44, first operand: `WHATSAPP_PROC and ...` reads the global.
start_whatsapp_listener_44a(t) ==
    /\ pc[t] = "start_44a"
    /\ pc' = [pc EXCEPT ![t] = IF WHATSAPP_PROC = None THEN "start_48" ELSE "start_44b"]
    /\ UNCHANGED <<globals, os_state, tasks, stop_proc, caller, outcome,
                   response, h_alive>>
    /\ UNCHANGED <<chat_vars, services>>

\* Line 44 without its poll() test: any handle at all is taken for a dead process.
start_whatsapp_listener_44b_no_poll(t) ==
    /\ pc[t] = "start_44b"
    /\ IF WHATSAPP_PROC = None
         THEN /\ pc' = [pc EXCEPT ![t] = "raised"]
              /\ outcome' = [outcome EXCEPT ![t] = "raised"]
         ELSE /\ pc' = [pc EXCEPT ![t] = "start_48"]
              /\ UNCHANGED outcome
    /\ UNCHANGED <<globals, os_state, tasks, stop_proc, caller, response, h_alive>>
    /\ UNCHANGED <<chat_vars, services>>

\* Line 44, second operand: `WHATSAPP_PROC.poll() is None` reads the global again.
\* None.poll() raises AttributeError; a running process makes the call return.
start_whatsapp_listener_44b(t) ==
    /\ pc[t] = "start_44b"
    /\ IF WHATSAPP_PROC = None
         THEN /\ pc' = [pc EXCEPT ![t] = "raised"]
              /\ outcome' = [outcome EXCEPT ![t] = "raised"]
         ELSE IF poll_is_None(WHATSAPP_PROC)
                THEN start_return(t, "already_running")
                ELSE /\ pc' = [pc EXCEPT ![t] = "start_48"]
                     /\ UNCHANGED outcome
    /\ UNCHANGED <<globals, os_state, tasks, stop_proc, caller, response, h_alive>>
    /\ UNCHANGED <<chat_vars, services>>

\* Lines 46-81 raising FileNotFoundError for a missing index.js instead of returning.
start_whatsapp_listener_48_raises(t, oks) ==
    /\ pc[t] = "start_48"
    /\ IF ~entry_exists
         THEN /\ pc' = [pc EXCEPT ![t] = "raised"]
              /\ outcome' = [outcome EXCEPT ![t] = "raised"]
              /\ UNCHANGED <<WHATSAPP_PROC, alive, spawned>>
         ELSE \E ok \in oks :
                IF ok
                  THEN /\ spawned < MaxSpawns
                       /\ spawned' = spawned + 1
                       /\ alive' = alive \cup {spawned + 1}
                       /\ WHATSAPP_PROC' = spawned + 1
                       /\ start_return(t, "started")
                  ELSE /\ start_return(t, "spawn_error")
                       /\ UNCHANGED <<WHATSAPP_PROC, alive, spawned>>
    /\ UNCHANGED <<RESTART_COUNT, entry_exists, tasks, stop_proc, caller, response, h_alive>>
    /\ UNCHANGED <<chat_vars, services>>

\* Lines 46-81.  A missing index.js is printed and the call returns (lines 48-50).
\* Otherwise subprocess.Popen(...) either creates a process, which line 71 stores
\* in WHATSAPP_PROC, or raises; `except Exception` (lines 80-81) logs the error and
\* the call returns.  oks is the set of results the operating system may give
\* (TRUE: spawned).  No other thread can name the new process before it is stored,
\* so the creation and the store are one step.
start_whatsapp_listener_48(t, oks) ==
    /\ pc[t] = "start_48"
    /\ IF ~entry_exists
         THEN /\ start_return(t, "no_entry")
              /\ UNCHANGED <<WHATSAPP_PROC, alive, spawned>>
         ELSE \E ok \in oks :
                IF ok
                  THEN /\ spawned < MaxSpawns
                       /\ spawned' = spawned + 1
                       /\ alive' = alive \cup {spawned + 1}
                       /\ WHATSAPP_PROC' = spawned + 1
                       /\ start_return(t, "started")
                  ELSE /\ start_return(t, "spawn_error")
                       /\ UNCHANGED <<WHATSAPP_PROC, alive, spawned>>
    /\ UNCHANGED <<RESTART_COUNT, entry_exists, tasks, stop_proc, caller, response, h_alive>>
    /\ UNCHANGED <<chat_vars, services>>

start_whatsapp_listener(t, oks) ==
    \/ start_whatsapp_listener_44a(t)
    \/ start_whatsapp_listener_44b(t)
    \/ start_whatsapp_listener_48(t, oks)

(***************************************************************************)
(* stop_whatsapp_listener(), lines 83-93.  Only lifespan calls it, on the  *)
(* event-loop thread.                                                      *)
(***************************************************************************)

\* Line 86: `if WHATSAPP_PROC and WHATSAPP_PROC.poll() is None`.
stop_whatsapp_listener_86 ==
    /\ pc[Loop] = "stop_86"
    /\ stop_proc' = WHATSAPP_PROC
    /\ IF WHATSAPP_PROC # None /\ poll_is_None(WHATSAPP_PROC)
         THEN pc' = [pc EXCEPT ![Loop] = "stop_88"]
         ELSE pc' = [pc EXCEPT ![Loop] = "stop_93"]
    /\ UNCHANGED <<globals, os_state, tasks, caller, outcome, response, h_alive>>
    /\ UNCHANGED <<chat_vars, services>>

\* Lines 88-92: WHATSAPP_PROC.terminate(), then WHATSAPP_PROC.wait(timeout=5).  A
\* process that honours the signal exits within the grace period and line 90 logs
\* it; a process that is still running after 5 s makes wait() raise TimeoutExpired,
\* which `except Exception` logs.  Nothing else is done to the process.
stop_whatsapp_listener_88 ==
    /\ pc[Loop] = "stop_88"
    /\ \/ alive' = alive \ {WHATSAPP_PROC}
       \/ /\ poll_is_None(WHATSAPP_PROC)
          /\ UNCHANGED alive
    /\ pc' = [pc EXCEPT ![Loop] = "stop_93"]
    /\ UNCHANGED <<globals, spawned, entry_exists, tasks, stop_proc, caller, outcome,
                   response, h_alive>>
    /\ UNCHANGED <<chat_vars, services>>

\* Line 93 also resetting the counter, as if stop cleared all of the tracked state.
stop_whatsapp_listener_93_resets_count ==
    /\ pc[Loop] = "stop_93"
    /\ WHATSAPP_PROC' = None
    /\ RESTART_COUNT' = 0
    /\ phase' = "closed"
    /\ pc' = [pc EXCEPT ![Loop] = "idle"]
    /\ caller' = [caller EXCEPT ![Loop] = "none"]
    /\ UNCHANGED <<os_state, heartbeat, stop_proc, outcome, response, h_alive>>
    /\ UNCHANGED <<chat_vars, services>>

\* Line 93: WHATSAPP_PROC = None; stop returns to lifespan, which ends.
stop_whatsapp_listener_93 ==
    /\ pc[Loop] = "stop_93"
    /\ WHATSAPP_PROC' = None
    /\ phase' = "closed"
    /\ pc' = [pc EXCEPT ![Loop] = "idle"]
    /\ caller' = [caller EXCEPT ![Loop] = "none"]
    /\ UNCHANGED <<RESTART_COUNT, os_state, heartbeat, stop_proc, outcome,
                   response, h_alive>>
    /\ UNCHANGED <<chat_vars, services>>

stop_whatsapp_listener ==
    \/ stop_whatsapp_listener_86
    \/ stop_whatsapp_listener_88
    \/ stop_whatsapp_listener_93

(***************************************************************************)
(* _heartbeat_task(), lines 97-112, on the event-loop thread.              *)
(***************************************************************************)

\* Line 100: the sleep ends and the event loop resumes the task.
heartbeat_task_100 ==
    /\ pc[Loop] = "idle"
    /\ heartbeat = "scheduled"
    /\ pc' = [pc EXCEPT ![Loop] = "hb_102"]
    /\ caller' = [caller EXCEPT ![Loop] = "heartbeat"]
    /\ UNCHANGED <<globals, os_state, tasks, stop_proc, outcome, response, h_alive>>
    /\ UNCHANGED <<chat_vars, services>>

\* Lines 102-108: alive -> log ok and sleep again; else call
\* start_whatsapp_listener().
heartbeat_task_102 ==
    /\ pc[Loop] = "hb_102"
    /\ IF WHATSAPP_PROC # None /\ poll_is_None(WHATSAPP_PROC)
         THEN /\ pc' = [pc EXCEPT ![Loop] = "idle"]
              /\ caller' = [caller EXCEPT ![Loop] = "none"]
         ELSE /\ pc' = [pc EXCEPT ![Loop] = "start_44a"]
              /\ UNCHANGED caller
    /\ UNCHANGED <<globals, os_state, tasks, stop_proc, outcome, response,
                   h_alive>>
    /\ UNCHANGED <<chat_vars, services>>

\* Lines 110-112 without the increment of line 111.
heartbeat_task_110_no_count ==
    /\ pc[Loop] = "hb_110"
    /\ pc' = [pc EXCEPT ![Loop] = "idle"]
    /\ caller' = [caller EXCEPT ![Loop] = "none"]
    /\ outcome' = [outcome EXCEPT ![Loop] = "none"]
    /\ UNCHANGED <<globals, os_state, tasks, stop_proc, response, h_alive>>
    /\ UNCHANGED <<chat_vars, services>>

\* Lines 110-112: after start_whatsapp_listener() returned, count the restart
\* if the global names a running process; then sleep again.
heartbeat_task_110 ==
    /\ pc[Loop] = "hb_110"
    /\ RESTART_COUNT' = IF WHATSAPP_PROC # None /\ poll_is_None(WHATSAPP_PROC)
                          THEN RESTART_COUNT + 1
                          ELSE RESTART_COUNT
    /\ pc' = [pc EXCEPT ![Loop] = "idle"]
    /\ caller' = [caller EXCEPT ![Loop] = "none"]
    /\ outcome' = [outcome EXCEPT ![Loop] = "none"]
    /\ UNCHANGED <<WHATSAPP_PROC, os_state, tasks, stop_proc, response, h_alive>>
    /\ UNCHANGED <<chat_vars, services>>

heartbeat_task ==
    \/ heartbeat_task_100
    \/ heartbeat_task_102
    \/ heartbeat_task_110

(***************************************************************************)
(* lifespan(), lines 114-122, on the event-loop thread.                    *)
(***************************************************************************)

\* Line 116: start_whatsapp_listener() before the application serves.
lifespan_116 ==
    /\ pc[Loop] = "lifespan_116"
    /\ pc' = [pc EXCEPT ![Loop] = "start_44a"]
    /\ UNCHANGED <<globals, os_state, tasks, stop_proc, caller, outcome,
                   response, h_alive>>
    /\ UNCHANGED <<chat_vars, services>>

\* Lines 117-119: create the heartbeat task and yield: the application serves.
lifespan_117 ==
    /\ pc[Loop] = "lifespan_117"
    /\ heartbeat' = "scheduled"
    /\ phase' = "serving"
    /\ pc' = [pc EXCEPT ![Loop] = "idle"]
    /\ caller' = [caller EXCEPT ![Loop] = "none"]
    /\ outcome' = [outcome EXCEPT ![Loop] = "none"]
    /\ UNCHANGED <<globals, os_state, stop_proc, response, h_alive>>
    /\ UNCHANGED <<chat_vars, services>>

\* Lines 120-122 without heartbeat.cancel(): the task stays scheduled.
lifespan_121_no_cancel ==
    /\ pc[Loop] = "idle"
    /\ phase = "serving"
    /\ phase' = "shutdown"
    /\ pc' = [pc EXCEPT ![Loop] = "stop_86"]
    /\ caller' = [caller EXCEPT ![Loop] = "lifespan"]
    /\ UNCHANGED <<globals, os_state, heartbeat, stop_proc, outcome, response,
                   h_alive>>
    /\ UNCHANGED <<chat_vars, services>>

\* Lines 120-122: on shutdown the event loop resumes lifespan, which cancels the
\* heartbeat task (it is suspended in its sleep) and calls
\* stop_whatsapp_listener() without an await in between.
lifespan_121 ==
    /\ pc[Loop] = "idle"
    /\ phase = "serving"
    /\ heartbeat' = "cancelled"
    /\ phase' = "shutdown"
    /\ pc' = [pc EXCEPT ![Loop] = "stop_86"]
    /\ caller' = [caller EXCEPT ![Loop] = "lifespan"]
    /\ UNCHANGED <<globals, os_state, stop_proc, outcome, response, h_alive>>
    /\ UNCHANGED <<chat_vars, services>>

lifespan ==
    \/ lifespan_116
    \/ lifespan_117
    \/ lifespan_121

(***************************************************************************)
(* GET /whatsapp, lines 243-274, in worker thread t.                       *)
(***************************************************************************)

\* Line 257: a request arrives and get_whatsapp calls start_whatsapp_listener().
get_whatsapp_257(t) ==
    /\ pc[t] = "idle"
    /\ phase = "serving"
    /\ pc' = [pc EXCEPT ![t] = "start_44a"]
    /\ caller' = [caller EXCEPT ![t] = "get_whatsapp"]
    /\ UNCHANGED <<globals, os_state, tasks, stop_proc, outcome, response,
                   h_alive>>
    /\ UNCHANGED <<chat_vars, services>>

\* messages.json as a request can find it: missing, or holding what json.load
\* makes of it (a list of messages, a mapping with or without "messages", another
\* document, or no JSON document at all).
messages_json ==
    {[exists |-> FALSE, data |-> [raised |-> TRUE, exc |-> "FileNotFoundError"]],
     [exists |-> TRUE, data |-> [raised |-> FALSE, value |-> [t |-> "list", v |-> <<>>]]],
     [exists |-> TRUE, data |-> [raised |-> FALSE,
                                 value |-> [t |-> "list", v |-> <<"hi", "hello">>]]],
     [exists |-> TRUE, data |-> [raised |-> FALSE,
                                 value |-> [t |-> "dict",
                                            v |-> [messages |-> <<"hi", "hello">>]]]],
     [exists |-> TRUE, data |-> [raised |-> FALSE,
                                 value |-> [t |-> "dict", v |-> [qr |-> "pending"]]]],
     [exists |-> TRUE, data |-> [raised |-> FALSE, value |-> [t |-> "str", v |-> "hi"]]],
     [exists |-> TRUE, data |-> [raised |-> TRUE, exc |-> "JSONDecodeError"]]}

\* The response of lines 259-260.
not_ready ==
    [messages |-> <<>>, count |-> 0, status |-> "listener starting or no messages yet"]

\* get_whatsapp_259 answering HTTP 500 when messages.json does not exist.
get_whatsapp_259_raises_if_missing(file) ==
    IF ~file.exists
      THEN [response |-> "http_500", body |-> [detail |-> "FileNotFoundError"]]
    ELSE IF file.data.raised
      THEN [response |-> "http_500", body |-> [detail |-> "Failed reading messages"]]
    ELSE LET data == file.data.value
         IN  CASE data.t = "list" ->
                    [response |-> "http_200",
                     body |-> [messages |-> data.v, count |-> Len(data.v)]]
               [] data.t = "dict" /\ "messages" \in DOMAIN data.v ->
                    [response |-> "http_200",
                     body |-> [messages |-> data.v["messages"],
                               count |-> Len(data.v["messages"])]]
               [] OTHER ->
                    [response |-> "http_200",
                     body |-> [messages |-> <<>>, count |-> 0,
                               status |-> "unexpected format"]]

\* Lines 259-272: what get_whatsapp answers when messages.json is `file`.
get_whatsapp_259(file) ==
    IF ~file.exists THEN [response |-> "http_200", body |-> not_ready]
    ELSE IF file.data.raised
      THEN [response |-> "http_500", body |-> [detail |-> "Failed reading messages"]]
    ELSE LET data == file.data.value
         IN  CASE data.t = "list" ->
                    [response |-> "http_200",
                     body |-> [messages |-> data.v, count |-> Len(data.v)]]
               [] data.t = "dict" /\ "messages" \in DOMAIN data.v ->
                    [response |-> "http_200",
                     body |-> [messages |-> data.v["messages"],
                               count |-> Len(data.v["messages"])]]
               [] OTHER ->
                    [response |-> "http_200",
                     body |-> [messages |-> <<>>, count |-> 0,
                               status |-> "unexpected format"]]

\* Lines 258-272: start_whatsapp_listener() has returned and its result is
\* dropped; messages.json is read, in whatever state it is, and the answer is
\* returned.
get_whatsapp_258(t) ==
    /\ pc[t] = "gw_258"
    /\ \E answer \in {get_whatsapp_259(file).response : file \in messages_json} :
         response' = [response EXCEPT ![t] = answer]
    /\ pc' = [pc EXCEPT ![t] = "respond"]
    /\ outcome' = [outcome EXCEPT ![t] = "none"]
    /\ UNCHANGED <<globals, os_state, tasks, stop_proc, caller, h_alive>>
    /\ UNCHANGED <<chat_vars, services>>

\* Lines 273-274: an exception out of start_whatsapp_listener() becomes HTTP 500.
get_whatsapp_273(t) ==
    /\ pc[t] = "raised"
    /\ caller[t] = "get_whatsapp"
    /\ response' = [response EXCEPT ![t] = "http_500"]
    /\ pc' = [pc EXCEPT ![t] = "respond"]
    /\ UNCHANGED <<globals, os_state, tasks, stop_proc, caller, outcome, h_alive>>
    /\ UNCHANGED <<chat_vars, services>>

get_whatsapp(t) ==
    \/ get_whatsapp_257(t)
    \/ get_whatsapp_258(t)
    \/ get_whatsapp_273(t)

(***************************************************************************)
(* GET /whatsapp/health, lines 276-294, in worker thread t.                *)
(***************************************************************************)

\* A request arrives.
whatsapp_health_277(t) ==
    /\ pc[t] = "idle"
    /\ phase = "serving"
    /\ pc' = [pc EXCEPT ![t] = "health_288a"]
    /\ caller' = [caller EXCEPT ![t] = "whatsapp_health"]
    /\ UNCHANGED <<globals, os_state, tasks, stop_proc, outcome, response,
                   h_alive>>
    /\ UNCHANGED <<chat_vars, services>>

\* Line 288, first operand: `WHATSAPP_PROC is not None`.
whatsapp_health_288a(t) ==
    /\ pc[t] = "health_288a"
    /\ IF WHATSAPP_PROC = None
         THEN /\ h_alive' = [h_alive EXCEPT ![t] = FALSE]
              /\ pc' = [pc EXCEPT ![t] = "health_289"]
         ELSE /\ pc' = [pc EXCEPT ![t] = "health_288b"]
              /\ UNCHANGED h_alive
    /\ UNCHANGED <<globals, os_state, tasks, stop_proc, caller, outcome, response>>
    /\ UNCHANGED <<chat_vars, services>>

\* Line 288 forgetting a handle whose process has exited (health tidying up).
whatsapp_health_288b_clears_dead(t) ==
    /\ pc[t] = "health_288b"
    /\ IF WHATSAPP_PROC = None
         THEN /\ response' = [response EXCEPT ![t] = "http_500"]
              /\ pc' = [pc EXCEPT ![t] = "respond"]
              /\ UNCHANGED <<h_alive, WHATSAPP_PROC>>
         ELSE /\ h_alive' = [h_alive EXCEPT ![t] = poll_is_None(WHATSAPP_PROC)]
              /\ WHATSAPP_PROC' = IF poll_is_None(WHATSAPP_PROC) THEN WHATSAPP_PROC ELSE None
              /\ pc' = [pc EXCEPT ![t] = "health_289"]
              /\ UNCHANGED response
    /\ UNCHANGED <<RESTART_COUNT, os_state, tasks, stop_proc, caller, outcome>>
    /\ UNCHANGED <<chat_vars, services>>

\* Line 288, second operand: `WHATSAPP_PROC.poll() is None` reads the global again;
\* None.poll() raises AttributeError, which the framework answers with HTTP 500.
whatsapp_health_288b(t) ==
    /\ pc[t] = "health_288b"
    /\ IF WHATSAPP_PROC = None
         THEN /\ response' = [response EXCEPT ![t] = "http_500"]
              /\ pc' = [pc EXCEPT ![t] = "respond"]
              /\ UNCHANGED h_alive
         ELSE /\ h_alive' = [h_alive EXCEPT ![t] = poll_is_None(WHATSAPP_PROC)]
              /\ pc' = [pc EXCEPT ![t] = "health_289"]
              /\ UNCHANGED response
    /\ UNCHANGED <<globals, os_state, tasks, stop_proc, caller, outcome>>
    /\ UNCHANGED <<chat_vars, services>>

\* The report of lines 289-294 with the pid of whatever handle is tracked.
whatsapp_health_290_pid_of_any_handle(t) ==
    [running |-> h_alive[t],
     pid |-> WHATSAPP_PROC,
     restart_count |-> RESTART_COUNT]

\* Lines 289-294: the report thread t returns when it executes line 289 now:
\* `WHATSAPP_PROC.pid if alive and WHATSAPP_PROC is not None else None` reads the
\* global again, RESTART_COUNT is read at line 293.
whatsapp_health_290(t) ==
    [running |-> h_alive[t],
     pid |-> IF h_alive[t] /\ WHATSAPP_PROC # None THEN WHATSAPP_PROC ELSE None,
     restart_count |-> RESTART_COUNT]

\* Lines 289-294: the report is built and returned.
whatsapp_health_289(t) ==
    /\ pc[t] = "health_289"
    /\ response' = [response EXCEPT ![t] = "http_200"]
    /\ h_alive' = [h_alive EXCEPT ![t] = FALSE]
    /\ pc' = [pc EXCEPT ![t] = "respond"]
    /\ UNCHANGED <<globals, os_state, tasks, stop_proc, caller, outcome>>
    /\ UNCHANGED <<chat_vars, services>>

whatsapp_health(t) ==
    \/ whatsapp_health_277(t)
    \/ whatsapp_health_288a(t)
    \/ whatsapp_health_288b(t)
    \/ whatsapp_health_289(t)

\* The endpoint function has returned (or raised): the framework sends the
\* response and the worker thread is free for the next request.
respond(t) ==
    /\ pc[t] = "respond"
    /\ pc' = [pc EXCEPT ![t] = "idle"]
    /\ caller' = [caller EXCEPT ![t] = "none"]
    /\ outcome' = [outcome EXCEPT ![t] = "none"]
    /\ response' = [response EXCEPT ![t] = "none"]
    /\ UNCHANGED <<globals, os_state, tasks, stop_proc, h_alive>>
    /\ UNCHANGED <<chat_vars, services>>

(***************************************************************************)
(* The environment.                                                        *)
(***************************************************************************)

\* A companion process exits (it crashes or is killed); poll() reports it from
\* then on.
process_exits(p) ==
    /\ p \in alive
    /\ alive' = alive \ {p}
    /\ UNCHANGED <<globals, spawned, entry_exists, tasks, stop_proc, pc, caller,
                   outcome, response, h_alive>>
    /\ UNCHANGED <<chat_vars, services>>


Next ==
    \/ \E t \in Threads : start_whatsapp_listener(t, BOOLEAN)
    \/ stop_whatsapp_listener
    \/ heartbeat_task
    \/ lifespan
    \/ \E t \in Handlers : get_whatsapp(t)
    \/ \E t \in Handlers : whatsapp_health(t)
    \/ \E t \in Handlers : respond(t)
    \/ \E p \in Pids : process_exits(p)

Spec == Init /\ [][Next]_vars

(***************************************************************************)
(* A burst of concurrent start_whatsapp_listener() calls against a dead or *)
(* never-started process: the heartbeat has just found no running process  *)
(* (line 102) and is about to call start_whatsapp_listener() (line 108),   *)
(* while GET /whatsapp requests arrive in the worker threads.  index.js    *)
(* exists, every Popen succeeds and no process exits.                      *)
(***************************************************************************)
BurstInit ==
    /\ \/ WHATSAPP_PROC = None /\ spawned = 0
       \/ WHATSAPP_PROC = 1 /\ spawned = 1
    /\ RESTART_COUNT = 0
    /\ alive = {}
    /\ entry_exists = TRUE
    /\ phase = "serving"
    /\ heartbeat = "scheduled"
    /\ pc = [t \in Threads |-> IF t = Loop THEN "start_44a" ELSE "idle"]
    /\ caller = [t \in Threads |-> IF t = Loop THEN "heartbeat" ELSE "none"]
    /\ outcome = [t \in Threads |-> "none"]
    /\ response = [t \in Threads |-> "none"]
    /\ h_alive = [t \in Threads |-> FALSE]
    /\ stop_proc = None
    /\ no_chat
    /\ no_services

BurstNext ==
    \/ \E t \in Threads : start_whatsapp_listener(t, {TRUE})
    \/ heartbeat_task
    \/ \E t \in Handlers : get_whatsapp_257(t)
    \/ \E t \in Handlers : get_whatsapp_258(t)
    \/ \E t \in Handlers : respond(t)

SpecBurst == BurstInit /\ [][BurstNext]_vars

(***************************************************************************)
(* The claims.                                                             *)
(***************************************************************************)

\* What lines 44, 86, 102, 110 and 288 all test: the global names a running process.
TrackedLive == WHATSAPP_PROC # None /\ WHATSAPP_PROC \in alive

\* Thread t is inside start_whatsapp_listener().
InStart(t) == pc[t] \in {"start_44a", "start_44b", "start_48"}

\* C1: in every reachable state at most one companion process spawned by the
\* supervisor is alive, under any interleaving of start calls from request
\* handlers, the startup call and heartbeat ticks.
C1_AtMostOneLive == Cardinality(alive) <= 1

\* C2: once the concurrent start calls of a burst against a dead or never-started
\* process have all completed, exactly one process is alive and restart_count was
\* incremented exactly once.
C2_BurstConverges ==
    ((\A t \in Threads : pc[t] = "idle") /\ alive # {})
        => (Cardinality(alive) = 1 /\ RESTART_COUNT = 1)

\* C3: a heartbeat tick that finds the tracked process dead (or none tracked) calls
\* start_whatsapp_listener(); when the tick then finds a running process tracked it
\* increments restart_count by exactly 1, otherwise it leaves it alone; no other
\* step of a tick changes restart_count.
C3_TickRestartsAndCounts ==
    [][ /\ (pc[Loop] = "hb_102" /\ pc'[Loop] # "hb_102" /\ ~TrackedLive)
            => (pc'[Loop] = "start_44a" /\ caller'[Loop] = "heartbeat"
                /\ RESTART_COUNT' = RESTART_COUNT)
        /\ (pc[Loop] = "hb_110" /\ pc'[Loop] # "hb_110")
            => RESTART_COUNT' = IF TrackedLive THEN RESTART_COUNT + 1 ELSE RESTART_COUNT
        /\ (caller[Loop] = "heartbeat" /\ pc[Loop] # "hb_110")
            => RESTART_COUNT' = RESTART_COUNT
      ]_vars

\* C3 witness: the first process was killed, a tick relaunched and counted once.
C3_Witness ==
    /\ RESTART_COUNT = 1
    /\ spawned = 2
    /\ 1 \notin alive
    /\ WHATSAPP_PROC = 2
    /\ 2 \in alive
    /\ pc[Loop] = "idle"

\* C4: a start_whatsapp_listener() call that finds a running process tracked returns
\* without spawning a process and leaves the tracked handle and restart_count as
\* they were.
C4_StartIsNoOpWhileLive ==
    [][ \A t \in Threads :
          (pc[t] = "start_44b" /\ pc'[t] # "start_44b" /\ TrackedLive)
            => /\ ~InStart(t)'
               /\ pc'[t] # "raised"
               /\ outcome'[t] = "already_running"
               /\ WHATSAPP_PROC' = WHATSAPP_PROC
               /\ RESTART_COUNT' = RESTART_COUNT
               /\ alive' = alive
               /\ spawned' = spawned
      ]_vars

\* C4 witness: a call has returned as a no-op while the one process runs.
C4_Witness ==
    /\ \E t \in Handlers : outcome[t] = "already_running" /\ pc[t] = "gw_258"
    /\ TrackedLive
    /\ Cardinality(alive) = 1

\* C5: after stop_whatsapp_listener() has returned, the process that was tracked
\* when it was called is no longer alive.
C5_StoppedProcessIsDead ==
    phase = "closed" => (stop_proc = None \/ stop_proc \notin alive)

\* C6: restart_count never decreases.
C6_RestartCountMonotonic == [][RESTART_COUNT' >= RESTART_COUNT]_vars

\* C6 witness: a counted restart is still on the counter after stop.
C6_Witness == RESTART_COUNT >= 1 /\ phase = "closed"

\* C7: no step of whatsapp_health changes the tracked handle or restart_count, spawns
\* a process or stops one.
C7_HealthIsPureRead ==
    [][ \A t \in Handlers :
          (pc'[t] # pc[t] /\ (caller[t] = "whatsapp_health" \/ caller'[t] = "whatsapp_health"))
            => /\ WHATSAPP_PROC' = WHATSAPP_PROC
               /\ RESTART_COUNT' = RESTART_COUNT
               /\ alive' = alive
               /\ spawned' = spawned
      ]_vars

\* C7 witness: health has answered while the tracked process had crashed.
C7_Witness ==
    /\ \E t \in Handlers :
         caller[t] = "whatsapp_health" /\ pc[t] = "respond" /\ response[t] = "http_200"
    /\ WHATSAPP_PROC # None
    /\ WHATSAPP_PROC \notin alive

\* C8: a launch that fails (index.js missing, or Popen raising) returns normally to
\* its caller and changes neither the tracked handle nor restart_count; the
\* heartbeat never ends by an exception; a tick that ends with no running process
\* tracked leaves restart_count alone and sleeps again; and every tick that finds no
\* running process tracked calls start_whatsapp_listener() again.
C8_FailedLaunchIsRetried ==
    [][ /\ \A t \in Threads :
             (outcome'[t] # outcome[t] /\ outcome'[t] \in {"no_entry", "spawn_error"})
               => /\ pc'[t] \in {"lifespan_117", "hb_110", "gw_258"}
                  /\ WHATSAPP_PROC' = WHATSAPP_PROC
                  /\ RESTART_COUNT' = RESTART_COUNT
                  /\ alive' = alive
        /\ pc'[Loop] # "raised"
        /\ (pc[Loop] = "hb_110" /\ pc'[Loop] # "hb_110" /\ ~TrackedLive)
             => /\ RESTART_COUNT' = RESTART_COUNT
                /\ pc'[Loop] = "idle"
                /\ heartbeat' = "scheduled"
        /\ (pc[Loop] = "hb_102" /\ pc'[Loop] # "hb_102" /\ ~TrackedLive)
             => pc'[Loop] = "start_44a"
        /\ (caller[Loop] = "heartbeat" /\ InStart(Loop) /\ phase = "serving")
             => heartbeat' = "scheduled"
      ]_vars

\* C8 witness: the heartbeat's relaunch has failed and the tick goes on.
C8_Witness ==
    /\ pc[Loop] = "hb_110"
    /\ outcome[Loop] \in {"no_entry", "spawn_error"}
    /\ ~TrackedLive
    /\ RESTART_COUNT = 0

\* C9: once shutdown has begun the heartbeat task is cancelled and executes nothing:
\* no liveness check (lines 102, 110) and no start_whatsapp_listener() call.
C9_NoHeartbeatAfterShutdown ==
    phase \in {"shutdown", "closed"}
        => /\ heartbeat = "cancelled"
           /\ caller[Loop] # "heartbeat"
           /\ pc[Loop] \notin {"hb_102", "hb_110"}

\* C9 witness: shutdown is over, the event loop is free and nothing is tracked: a
\* heartbeat that were still scheduled would now relaunch.
C9_Witness ==
    /\ phase = "closed"
    /\ pc[Loop] = "idle"
    /\ WHATSAPP_PROC = None
    /\ entry_exists

\* C10: restart_count changes only in a heartbeat tick that found no live process
\* and whose own start_whatsapp_listener() call launched one.
C10_OnlyHeartbeatRestartsCounted ==
    [][ RESTART_COUNT' # RESTART_COUNT
          => /\ pc[Loop] = "hb_110"
             /\ caller[Loop] = "heartbeat"
             /\ outcome[Loop] = "started"
      ]_vars

(***************************************************************************)
(* The chat turn: POST /gemini_chat of src/src/mcp_server.py.              *)
(*                                                                         *)
(* Python objects.  A decoded JSON value is a record tagged with its       *)
(* Python type.  A str that the code strips, splits or decodes is a        *)
(* sequence of pieces: " " and "\n" are whitespace characters, fence is a   *)
(* run of three backticks, and every other piece is a run of text that has *)
(* no newline and no backtick in it and no whitespace at either end (some  *)
(* prose, or a JSON document written on one line).                         *)
(* A call either returns a value or raises an exception.                   *)
(***************************************************************************)
PyNone == [t |-> "NoneType"]
Str(s) == [t |-> "str", v |-> s]
\* f"{s}{x}"
fstr(s, x) == [t |-> "str", v |-> s, arg |-> x]
Bool(b) == [t |-> "bool", v |-> b]
Int(n) == [t |-> "int", v |-> n]
List(l) == [t |-> "list", v |-> l]
Dict(d) == [t |-> "dict", v |-> d]
\* {}
EmptyDict == Dict([k \in {} |-> PyNone])

Return(v) == [raised |-> FALSE, value |-> v]
Raise(e) == [raised |-> TRUE, exc |-> e]

isinstance_dict(x) == x.t = "dict"

\* bool(x): None, "", 0, False, [] and {} are false.
bool(x) ==
    CASE x.t = "NoneType" -> FALSE
      [] x.t = "str" -> "arg" \in DOMAIN x \/ x.v # ""
      [] x.t = "bool" -> x.v
      [] x.t = "int" -> x.v # 0
      [] x.t = "list" -> x.v # <<>>
      [] x.t = "dict" -> DOMAIN x.v # {}

\* a or b
or(a, b) == IF bool(a) THEN a ELSE b

\* x.get(key, default): only a dict has the attribute `get`.
get(x, key, default) ==
    IF ~isinstance_dict(x) THEN Raise("AttributeError")
    ELSE IF key \in DOMAIN x.v THEN Return(x.v[key])
    ELSE Return(default)

\* key in x, for the objects a JSON document decodes to.
contains(x, key) ==
    CASE x.t = "dict" -> Return(key \in DOMAIN x.v)
      [] x.t = "list" -> Return(\E i \in DOMAIN x.v : x.v[i] = Str(key))
      [] x.t = "str" -> Return("arg" \notin DOMAIN x /\ x.v = key)
      [] OTHER -> Raise("TypeError")

\* The piece "```" (a TLA+ string cannot hold a backtick).
fence == "<3 backticks>"

isspace(c) == c \in {" ", "\n"}

RECURSIVE lstrip(_)
lstrip(s) == IF s # <<>> /\ isspace(Head(s)) THEN lstrip(Tail(s)) ELSE s

RECURSIVE rstrip(_)
rstrip(s) ==
    IF s # <<>> /\ isspace(s[Len(s)]) THEN rstrip(SubSeq(s, 1, Len(s) - 1)) ELSE s

\* str.strip()
strip(s) == rstrip(lstrip(s))

\* str.startswith(prefix), for a prefix that is one piece
startswith(s, prefix) == s # <<>> /\ Head(s) = prefix

\* str.split("\n"): the lines of s (one more than its newlines)
RECURSIVE split(_)
split(s) ==
    IF \A i \in DOMAIN s : s[i] # "\n" THEN <<s>>
    ELSE LET n == CHOOSE i \in DOMAIN s : s[i] = "\n" /\ \A j \in 1..(i - 1) : s[j] # "\n"
         IN <<SubSeq(s, 1, n - 1)>> \o split(SubSeq(s, n + 1, Len(s)))

\* "\n".join(lines)
RECURSIVE join(_)
join(lines) ==
    IF lines = <<>> THEN <<>>
    ELSE IF Len(lines) = 1 THEN lines[1]
    ELSE lines[1] \o <<"\n">> \o join(Tail(lines))


\* The decoder of json.loads at the start of piece `doc`: the value of the JSON
\* document written there, or the exception the decoder raises.  A piece that is
\* listed with a value is a complete document; no other piece starts one,
\* whatever follows it.
json_scan(doc) ==
    CASE doc = "{\"tool\":\"get_gmail\"}" ->
           Return(Dict([tool |-> Str("get_gmail")]))
      [] doc = "{\"tool\":\"get_calendar_events\",\"parameters\":{}}" ->
           Return(Dict([tool |-> Str("get_calendar_events"), parameters |-> EmptyDict]))
      [] doc = "{\"tool\":\"get_weather_info\",\"parameters\":{\"city\":\"Tokyo\"}}" ->
           Return(Dict([tool |-> Str("get_weather_info"),
                        parameters |-> Dict([city |-> Str("Tokyo")])]))
      [] doc = "{\"tool\":\"get_weather_info\",\"parameters\":{}}" ->
           Return(Dict([tool |-> Str("get_weather_info"), parameters |-> EmptyDict]))
      [] doc = "{\"tool\":\"search\",\"parameters\":null}" ->
           Return(Dict([tool |-> Str("search"), parameters |-> PyNone]))
      [] doc = "{\"tool\":\"fly_to_moon\",\"parameters\":{}}" ->
           Return(Dict([tool |-> Str("fly_to_moon"), parameters |-> EmptyDict]))
      [] doc = "{\"reply\":\"hi\"}" ->
           Return(Dict([reply |-> Str("hi")]))
      [] doc = "[\"tool\"]" ->
           Return(List(<<Str("tool")>>))
      [] doc = "\"tool\"" ->
           Return(Str("tool"))
      \* an integer literal of 5000 digits: int() refuses more than 4300 digits
      [] doc = "11111...(5000 digits)" ->
           Raise("ValueError")
      \* 100000 opening brackets: the decoder recurses once per bracket
      [] doc = "[[[[[...(100000 brackets)" ->
           Raise("RecursionError")
      \* prose, "{tool:get_gmail}", three backticks, ...
      [] OTHER ->
           Raise("JSONDecodeError")

\* json.loads(s): one JSON document, with whitespace allowed around it.
json_loads(s) ==
    LET doc == strip(s)
    IN  IF doc = <<>> THEN Raise("JSONDecodeError")
        ELSE LET first == json_scan(Head(doc))
             IN  IF first.raised THEN first
                 ELSE IF Len(doc) > 1 THEN Raise("JSONDecodeError")
                 ELSE first

\* Lines 112-118 of parse_tool_call: the lines that lie between fence lines.
RECURSIVE json_lines(_, _)
json_lines(lines, in_code_block) ==
    IF lines = <<>> THEN <<>>
    ELSE IF startswith(Head(lines), fence)
           THEN json_lines(Tail(lines), ~in_code_block)
    ELSE IF in_code_block
           THEN <<Head(lines)>> \o json_lines(Tail(lines), in_code_block)
    ELSE json_lines(Tail(lines), in_code_block)

\* Lines 106-119: the text handed to json.loads.
parse_tool_call_119(raw) ==
    LET stripped == strip(raw)
    IN  IF startswith(stripped, fence)
          THEN strip(join(json_lines(split(stripped), FALSE)))
          ELSE stripped

\* parse_tool_call(raw): the decoded dict, None, or the exception that leaves
\* the function (only json.JSONDecodeError is caught, line 125).
parse_tool_call(raw) ==
    LET data == json_loads(parse_tool_call_119(raw))
    IN  IF data.raised
          THEN IF data.exc = "JSONDecodeError" THEN Return(PyNone) ELSE data
        ELSE IF isinstance_dict(data.value) /\ contains(data.value, "tool").value
          THEN data
        ELSE Return(PyNone)


\* filtered_mail carrying the body of the mail into the result as well.
filtered_mail_keeps_body(mail) ==
    Dict([subject |-> or(get(mail, "subject", PyNone).value,
                         get(mail, "title", PyNone).value),
          sender |-> or(or(get(mail, "sender", PyNone).value,
                           get(mail, "senderName", PyNone).value),
                        get(mail, "from", PyNone).value),
          body |-> get(mail, "body", PyNone).value])

(***************************************************************************)
(* execute_tool.  `answer` is what the tools application does with the     *)
(* request of client.get: Raise(...) when the transport fails, otherwise   *)
(* Return(resp) with resp.status_code and the outcome of resp.json().      *)
(* Each operator yields the outcome of the code and the URLs it requested. *)
(***************************************************************************)
\* Lines 142-144 and 154-156: the subject and the sender of one mail.
filtered_mail(mail) ==
    Dict([subject |-> or(get(mail, "subject", PyNone).value,
                         get(mail, "title", PyNone).value),
          sender |-> or(or(get(mail, "sender", PyNone).value,
                           get(mail, "senderName", PyNone).value),
                        get(mail, "from", PyNone).value)])

\* Lines 139-145 and 151-157: the list built from data["emails"].
filtered_emails(data) ==
    LET has == contains(data, "emails")
    IN  IF has.raised THEN has
        ELSE IF ~has.value THEN Return(List(<<>>))
        \* data["emails"] of a list or of a str
        ELSE IF ~isinstance_dict(data) THEN Raise("TypeError")
        ELSE LET emails == data.v["emails"]
             IN  CASE emails.t = "list" ->
                        IF \E i \in DOMAIN emails.v : ~isinstance_dict(emails.v[i])
                          THEN Raise("AttributeError")
                          ELSE Return(List([i \in DOMAIN emails.v |->
                                               filtered_mail(emails.v[i])]))
                   \* iterating a str or a dict yields str objects: no mail.get
                   [] emails.t \in {"str", "dict"} ->
                        IF bool(emails) THEN Raise("AttributeError")
                                        ELSE Return(List(<<>>))
                   [] OTHER -> Raise("TypeError")

\* The request of client.get(f"{base_url}{path}?{query}") under the client's
\* timeout (line 134).
client_get(path, query) ==
    [fn |-> "client.get", arg |-> [path |-> path, query |-> query, timeout |-> 30]]

\* resp = await client.get(url); data = resp.json(): the decoded body, whatever
\* resp.status_code is.
resp_json(answer) == IF answer.raised THEN answer ELSE answer.value.json

\* Lines 135-145: get_gmail.
execute_tool_135(answer) ==
    LET data == resp_json(answer)
    IN  [out |-> IF data.raised THEN data ELSE filtered_emails(data.value),
         gets |-> <<client_get("/tools/gmail", EmptyDict)>>]

\* Lines 147-157: get_outlook.
execute_tool_147(answer) ==
    LET data == resp_json(answer)
    IN  [out |-> IF data.raised THEN data ELSE filtered_emails(data.value),
         gets |-> <<client_get("/tools/outlook", EmptyDict)>>]

\* Lines 159-163: get_tasks.
execute_tool_159(answer) ==
    LET data == resp_json(answer)
        tasks_ == IF data.raised THEN data ELSE get(data.value, "tasks", List(<<>>))
    IN  [out |-> IF tasks_.raised THEN tasks_ ELSE Return(Dict([tasks |-> tasks_.value])),
         gets |-> <<client_get("/tools/outlook", EmptyDict)>>]

\* Lines 165-169: get_calendar_events.
execute_tool_165(answer) ==
    LET data == resp_json(answer)
        events == IF data.raised THEN data ELSE get(data.value, "events", List(<<>>))
    IN  [out |-> IF events.raised THEN events ELSE Return(Dict([events |-> events.value])),
         gets |-> <<client_get("/tools/outlook", EmptyDict)>>]

\* Lines 171-173: get_whatsapp_messages.
execute_tool_171(answer) ==
    [out |-> resp_json(answer), gets |-> <<client_get("/tools/whatsapp", EmptyDict)>>]

\* Lines 175-186: get_weather_info.
execute_tool_175(parameters, answer) ==
    LET city == get(parameters, "city", PyNone)
        days == get(parameters, "days", Int(1))
        formatted == get(parameters, "formatted", Bool(TRUE))
    IN  IF city.raised THEN [out |-> city, gets |-> <<>>]
        ELSE IF ~bool(city.value)
          THEN [out |-> Return(Dict([error |->
                          Str("City parameter is required for weather info")])),
                gets |-> <<>>]
        ELSE [out |-> resp_json(answer),
              gets |-> <<client_get("/tools/weather",
                                    Dict([city |-> city.value, days |-> days.value,
                                          formatted |-> formatted.value]))>>]

\* execute_tool_188 without the test of line 194.
execute_tool_188_no_query_check(parameters, answer) ==
    LET query == get(parameters, "query", PyNone)
        max_results == get(parameters, "max_results", Int(3))
        formatted == get(parameters, "formatted", Bool(TRUE))
        region == get(parameters, "region", Str("us-en"))
    IN  IF query.raised THEN [out |-> query, gets |-> <<>>]
        ELSE [out |-> resp_json(answer),
              gets |-> <<client_get("/tools/search",
                                    Dict([query |-> query.value,
                                          max_results |-> max_results.value,
                                          formatted |-> formatted.value,
                                          region |-> region.value]))>>]

\* Lines 188-200: search.
execute_tool_188(parameters, answer) ==
    LET query == get(parameters, "query", PyNone)
        max_results == get(parameters, "max_results", Int(3))
        formatted == get(parameters, "formatted", Bool(TRUE))
        region == get(parameters, "region", Str("us-en"))
    IN  IF query.raised THEN [out |-> query, gets |-> <<>>]
        ELSE IF ~bool(query.value)
          THEN [out |-> Return(Dict([error |->
                          Str("Query parameter is required for search")])),
                gets |-> <<>>]
        ELSE [out |-> resp_json(answer),
              gets |-> <<client_get("/tools/search",
                                    Dict([query |-> query.value,
                                          max_results |-> max_results.value,
                                          formatted |-> formatted.value,
                                          region |-> region.value]))>>]

\* Lines 202-203: any other tool name.
execute_tool_202(tool_name) ==
    [out |-> Return(Dict([error |-> fstr("Unknown tool: ", tool_name)])), gets |-> <<>>]

\* execute_tool_134 without the branch of line 159.
execute_tool_134_no_get_tasks(tool_name, parameters, answer) ==
    CASE tool_name = Str("get_gmail") -> execute_tool_135(answer)
      [] tool_name = Str("get_outlook") -> execute_tool_147(answer)
      [] tool_name = Str("get_calendar_events") -> execute_tool_165(answer)
      [] tool_name = Str("get_whatsapp_messages") -> execute_tool_171(answer)
      [] tool_name = Str("get_weather_info") -> execute_tool_175(parameters, answer)
      [] tool_name = Str("search") -> execute_tool_188(parameters, answer)
      [] OTHER -> execute_tool_202(tool_name)

\* Lines 134-203: the body of the try statement.
execute_tool_134(tool_name, parameters, answer) ==
    CASE tool_name = Str("get_gmail") -> execute_tool_135(answer)
      [] tool_name = Str("get_outlook") -> execute_tool_147(answer)
      [] tool_name = Str("get_tasks") -> execute_tool_159(answer)
      [] tool_name = Str("get_calendar_events") -> execute_tool_165(answer)
      [] tool_name = Str("get_whatsapp_messages") -> execute_tool_171(answer)
      [] tool_name = Str("get_weather_info") -> execute_tool_175(parameters, answer)
      [] tool_name = Str("search") -> execute_tool_188(parameters, answer)
      [] OTHER -> execute_tool_202(tool_name)

\* execute_tool catching the failures of the transport only.
execute_tool_catches_transport_only(tool_name, parameters, answer) ==
    LET body == execute_tool_134(tool_name, parameters, answer)
    IN  [out |-> IF body.out.raised /\ body.out.exc = "ConnectError"
                   THEN Return(Dict([error |-> fstr("Tool execution failed: ",
                                                    Str(body.out.exc))]))
                   ELSE body.out,
         gets |-> body.gets]

\* execute_tool(tool_name, parameters, base_url): line 205 turns every exception
\* of the body into an error result.
execute_tool(tool_name, parameters, answer) ==
    LET body == execute_tool_134(tool_name, parameters, answer)
    IN  [out |-> IF body.out.raised
                   THEN Return(Dict([error |-> fstr("Tool execution failed: ",
                                                    Str(body.out.exc))]))
                   ELSE body.out,
         gets |-> body.gets]

(***************************************************************************)
(* llm_tools.schema of src/src/ai_brain/function_calling.py: per tool its   *)
(* name, the names of its parameters, the required ones and the declared   *)
(* defaults.                                                               *)
(***************************************************************************)
no_parameters == [properties |-> {}, required |-> {}, default |-> [k \in {} |-> PyNone]]

llm_tools_schema ==
    <<[name |-> "get_gmail", parameters |-> no_parameters],
      [name |-> "get_outlook", parameters |-> no_parameters],
      [name |-> "get_tasks", parameters |-> no_parameters],
      [name |-> "get_calendar_events", parameters |-> no_parameters],
      [name |-> "get_whatsapp_messages", parameters |-> no_parameters],
      [name |-> "search",
       parameters |-> [properties |-> {"query", "max_results", "formatted"},
                       required |-> {"query"},
                       default |-> [max_results |-> Int(3), formatted |-> Bool(TRUE)]]],
      [name |-> "get_weather_info",
       parameters |-> [properties |-> {"city", "days", "formatted"},
                       required |-> {"city"},
                       default |-> [days |-> Int(1), formatted |-> Bool(FALSE)]]]>>

(***************************************************************************)
(* GroqIntegration.get_response.  `answer` is what requests.post does:     *)
(* Raise(...) when the transport fails, otherwise Return(response) with    *)
(* response.status_code, response.text and `content`, the outcome of       *)
(* response.json()["choices"][0]["message"]["content"].                    *)
(***************************************************************************)
get_response(answer) ==
    IF answer.raised THEN answer
    ELSE IF answer.value.status_code = 200
      THEN LET reply == answer.value.content
           IN  IF reply.raised /\ reply.exc \in {"KeyError", "IndexError"}
                 THEN Return(<<"[Groq API: No response text found]">>)
                 ELSE reply
    ELSE Return(<<"[Groq API Error ", ToString(answer.value.status_code), ": ",
                  answer.value.text, "]">>)

\* Lines 45-46: the history after get_response(prompt) under `answer`.
get_response_history(prompt, answer) ==
    IF ~answer.raised /\ answer.value.status_code = 200 /\ ~answer.value.content.raised
      THEN groq.history \o <<[role |-> "user", content |-> prompt],
                             [role |-> "assistant", content |-> answer.value.content.value]>>
      ELSE groq.history

\* The request of requests.post (line 39) for `prompt`, and what came of it.
requests_post(prompt, answer) ==
    [fn |-> "requests.post", arg |-> prompt, answer |-> answer]

\* The model service's answers: a reply text out of `replies`, a body without
\* choices, HTTP 429, or a transport failure.
groq_answers(replies) ==
    {Raise("ConnectionError"),
     Return([status_code |-> 200, text |-> "{}", content |-> Raise("KeyError")]),
     Return([status_code |-> 429, text |-> "rate limit reached",
             content |-> Raise("KeyError")])}
    \cup {Return([status_code |-> 200, text |-> "{...}", content |-> Return(r)]) :
            r \in replies}

\* A local variable that is not bound yet.
unbound == [t |-> "unbound"]

\* data.get("prompt", "") (line 213)
user_prompt == [user_prompt |-> "What's on my calendar?"]

\* Lines 252-256: the follow-up prompt.
follow_up_prompt(tool_name, tool_result) ==
    [tool_name |-> tool_name, json_dumps |-> tool_result,
     user_prompt |-> user_prompt.user_prompt]

\* gemini_chat ends: it returns `value` (HTTP 200) or an exception leaves it
\* (HTTP 500).
gemini_chat_ends(result) ==
    [turn EXCEPT !.pc = IF result.raised THEN "raised" ELSE "returned",
                 !.result = result]

\* Line 231: the first model call.
gemini_chat_231(replies) ==
    /\ turn.pc = "line_231"
    /\ \E answer \in groq_answers(replies) :
         LET reply == get_response(answer)
         IN  /\ calls' = Append(calls, requests_post(user_prompt, answer))
             /\ groq' = [groq EXCEPT !.history = get_response_history(user_prompt, answer)]
             /\ turn' = IF reply.raised THEN gemini_chat_ends(reply)
                        ELSE [turn EXCEPT !.pc = "line_235", !.response = reply.value]
    /\ UNCHANGED <<supervisor_vars, services>>


\* gemini_chat_235 returning the reply as parse_tool_call trimmed it.
gemini_chat_235_returns_stripped ==
    /\ turn.pc = "line_235"
    /\ LET tool_call == parse_tool_call(turn.response)
       IN  /\ calls' = Append(calls, [fn |-> "parse_tool_call", arg |-> turn.response])
           /\ turn' = IF tool_call.raised THEN gemini_chat_ends(tool_call)
                      ELSE IF tool_call.value = PyNone
                        THEN gemini_chat_ends(Return([reply |-> strip(turn.response)]))
                      ELSE [turn EXCEPT
                              !.pc = "line_248",
                              !.tool_call = tool_call.value,
                              !.tool_name = get(tool_call.value, "tool", Str("")).value,
                              !.parameters =
                                  get(tool_call.value, "parameters", EmptyDict).value]
    /\ UNCHANGED <<groq, supervisor_vars, services>>

\* Lines 235-247: parse the first reply; return it when it is no tool call.
gemini_chat_235 ==
    /\ turn.pc = "line_235"
    /\ LET tool_call == parse_tool_call(turn.response)
       IN  /\ calls' = Append(calls, [fn |-> "parse_tool_call", arg |-> turn.response])
           /\ turn' = IF tool_call.raised THEN gemini_chat_ends(tool_call)
                      ELSE IF tool_call.value = PyNone
                        THEN gemini_chat_ends(Return([reply |-> turn.response]))
                      ELSE [turn EXCEPT
                              !.pc = "line_248",
                              !.tool_call = tool_call.value,
                              !.tool_name = get(tool_call.value, "tool", Str("")).value,
                              !.parameters =
                                  get(tool_call.value, "parameters", EmptyDict).value]
    /\ UNCHANGED <<groq, supervisor_vars, services>>

\* gemini_chat_248 raising when the result of the tool is an error.
gemini_chat_248_raises_on_error(answers) ==
    /\ turn.pc = "line_248"
    /\ \E answer \in answers :
         LET tool_result == execute_tool(turn.tool_name, turn.parameters, answer)
         IN  /\ calls' = calls
                   \o <<[fn |-> "execute_tool",
                         arg |-> [tool_name |-> turn.tool_name,
                                  parameters |-> turn.parameters],
                         answer |-> answer]>>
                   \o tool_result.gets
             /\ turn' = IF tool_result.out.raised THEN gemini_chat_ends(tool_result.out)
                        ELSE IF isinstance_dict(tool_result.out.value)
                                /\ "error" \in DOMAIN tool_result.out.value.v
                          THEN gemini_chat_ends(Raise("HTTPException"))
                        ELSE [turn EXCEPT !.pc = "line_258",
                                          !.tool_result = tool_result.out.value]
    /\ UNCHANGED <<groq, supervisor_vars, services>>

\* Line 248: execute the tool.
gemini_chat_248(answers) ==
    /\ turn.pc = "line_248"
    /\ \E answer \in answers :
         LET tool_result == execute_tool(turn.tool_name, turn.parameters, answer)
         IN  /\ calls' = calls
                   \o <<[fn |-> "execute_tool",
                         arg |-> [tool_name |-> turn.tool_name,
                                  parameters |-> turn.parameters],
                         answer |-> answer]>>
                   \o tool_result.gets
             /\ turn' = IF tool_result.out.raised THEN gemini_chat_ends(tool_result.out)
                        ELSE [turn EXCEPT !.pc = "line_258",
                                          !.tool_result = tool_result.out.value]
    /\ UNCHANGED <<groq, supervisor_vars, services>>

\* gemini_chat_258 handing the follow-up reply to line 235 again.
gemini_chat_258_reparses(replies) ==
    /\ turn.pc = "line_258"
    /\ \E answer \in groq_answers(replies) :
         LET prompt == follow_up_prompt(turn.tool_name, turn.tool_result)
             final_reply == get_response(answer)
         IN  /\ calls' = Append(calls, requests_post(prompt, answer))
             /\ groq' = [groq EXCEPT !.history = get_response_history(prompt, answer)]
             /\ turn' = IF final_reply.raised THEN gemini_chat_ends(final_reply)
                        ELSE [turn EXCEPT !.pc = "line_235",
                                          !.response = final_reply.value]
    /\ UNCHANGED <<supervisor_vars, services>>

\* Lines 252-264: the second model call and the reply of the turn.
gemini_chat_258(replies) ==
    /\ turn.pc = "line_258"
    /\ \E answer \in groq_answers(replies) :
         LET prompt == follow_up_prompt(turn.tool_name, turn.tool_result)
             final_reply == get_response(answer)
         IN  /\ calls' = Append(calls, requests_post(prompt, answer))
             /\ groq' = [groq EXCEPT !.history = get_response_history(prompt, answer)]
             /\ turn' = IF final_reply.raised THEN gemini_chat_ends(final_reply)
                        ELSE gemini_chat_ends(
                                 Return([reply |-> final_reply.value,
                                         tool_used |-> turn.tool_name,
                                         tool_result |-> turn.tool_result]))
    /\ UNCHANGED <<supervisor_vars, services>>

\* The supervisor while a turn is followed on its own: the state of Init.
no_supervisor ==
    /\ WHATSAPP_PROC = None
    /\ RESTART_COUNT = 0
    /\ alive = {}
    /\ spawned = 0
    /\ entry_exists = TRUE
    /\ phase = "startup"
    /\ heartbeat = "none"
    /\ pc = [t \in Threads |-> IF t = Loop THEN "lifespan_116" ELSE "idle"]
    /\ caller = [t \in Threads |-> IF t = Loop THEN "lifespan" ELSE "none"]
    /\ outcome = [t \in Threads |-> "none"]
    /\ response = [t \in Threads |-> "none"]
    /\ h_alive = [t \in Threads |-> FALSE]
    /\ stop_proc = None

\* gemini_chat about to execute `line` with nothing bound and nothing called.
gemini_chat_at(line) ==
    [pc |-> line, response |-> unbound, tool_call |-> unbound, tool_name |-> unbound,
     parameters |-> unbound, tool_result |-> unbound, result |-> unbound]


(***************************************************************************)
(* parse_tool_call on its own: gemini_chat is at line 235 with a first     *)
(* reply of at most MaxLen pieces.                                         *)
(***************************************************************************)
MaxLen == 5

parse_pieces ==
    {" ", "\n", fence, "{\"tool\":\"get_gmail\"}", "{\"reply\":\"hi\"}", "[\"tool\"]",
     "{tool:get_gmail}", "I think it's sunny today!", "11111...(5000 digits)"}

ParseInit ==
    /\ no_supervisor
    /\ no_services
    /\ \E n \in 0..MaxLen : \E raw \in [1..n -> parse_pieces] :
         turn = [gemini_chat_at("line_235") EXCEPT !.response = raw]
    /\ groq = [history |-> <<>>]
    /\ calls = <<>>

ParseNext == gemini_chat_235

SpecParse == ParseInit /\ [][ParseNext]_vars

(***************************************************************************)
(* execute_tool on its own: gemini_chat is at line 248 with a tool call    *)
(* decoded from the first reply.  The "tool" and the "parameters" of a     *)
(* decoded document are any JSON values.                                   *)
(***************************************************************************)
\* What the routes of the tools application answer.
tools_answers ==
    {Raise("ConnectError"),
     \* a route that succeeds
     Return([status_code |-> 200,
             json |-> Return(Dict([status |-> Str("success"),
                                   emails |-> List(<<Dict([subject |-> Str("Invoice"),
                                                           from |-> Str("bob@example.com"),
                                                           body |-> Str("Hello")])>>),
                                   tasks |-> List(<<Dict([title |-> Str("Buy milk")])>>),
                                   events |-> List(<<Dict([subject |-> Str("Standup")])>>)]))]),
     \* raise HTTPException(status_code=500, detail=str(e)) of get_outlook
     Return([status_code |-> 500,
             json |-> Return(Dict([detail |-> Str("Graph unreachable")]))]),
     \* a body that is no JSON document
     Return([status_code |-> 502, json |-> Raise("JSONDecodeError")]),
     \* bodies on which lines 140-144 raise
     Return([status_code |-> 200, json |-> Return(Dict([emails |-> List(<<Str("Invoice")>>)]))]),
     Return([status_code |-> 200, json |-> Return(PyNone)])}

\* A parameter that the call does not carry.
absent == [t |-> "absent"]

\* {"city": city, "query": query, ...} without the absent ones.
parameters_of(given) ==
    Dict([k \in {k \in DOMAIN given : given[k] # absent} |-> given[k]])

dispatch_parameters ==
    {parameters_of([city |-> city, query |-> query, days |-> days,
                    formatted |-> formatted, max_results |-> max_results,
                    region |-> region]) :
        city \in {absent, Str("Tokyo"), Str(""), PyNone},
        query \in {absent, Str("tla+"), Str("")},
        days \in {absent, Int(3)},
        formatted \in {absent, Bool(FALSE)},
        max_results \in {absent, Int(5)},
        region \in {absent, Str("au-en")}}
    \cup {PyNone, List(<<Str("Tokyo")>>)}

dispatch_tool_names ==
    {Str("get_gmail"), Str("get_outlook"), Str("get_tasks"), Str("get_calendar_events"),
     Str("get_whatsapp_messages"), Str("get_weather_info"), Str("search"),
     Str("fly_to_moon"), Str(""), PyNone}

DispatchInit ==
    /\ no_supervisor
    /\ no_services
    /\ \E tool_name \in dispatch_tool_names : \E parameters \in dispatch_parameters :
         turn = [gemini_chat_at("line_248") EXCEPT
                    !.tool_call = Dict([tool |-> tool_name, parameters |-> parameters]),
                    !.tool_name = tool_name,
                    !.parameters = parameters]
    /\ groq = [history |-> <<>>]
    /\ calls = <<>>

DispatchNext == gemini_chat_248(tools_answers)

SpecDispatch == DispatchInit /\ [][DispatchNext]_vars

(***************************************************************************)
(* A whole turn of POST /gemini_chat.                                      *)
(***************************************************************************)
chat_documents ==
    {"I think it's sunny today!", "{\"reply\":\"hi\"}", "11111...(5000 digits)",
     "{\"tool\":\"get_gmail\"}", "{\"tool\":\"get_calendar_events\",\"parameters\":{}}",
     "{\"tool\":\"get_weather_info\",\"parameters\":{\"city\":\"Tokyo\"}}",
     "{\"tool\":\"get_weather_info\",\"parameters\":{}}",
     "{\"tool\":\"search\",\"parameters\":null}",
     "{\"tool\":\"fly_to_moon\",\"parameters\":{}}"}

\* What the model replies: a document bare, inside whitespace, or fenced.
chat_replies ==
    UNION {{<<doc>>, <<" ", doc, "\n">>, <<fence, "json", "\n", doc, "\n", fence>>} :
             doc \in chat_documents}

ChatInit ==
    /\ no_supervisor
    /\ no_services
    /\ turn = gemini_chat_at("line_231")
    /\ groq = [history |-> <<>>]
    /\ calls = <<>>

ChatNext ==
    \/ gemini_chat_231(chat_replies)
    \/ gemini_chat_235
    \/ gemini_chat_248(tools_answers)
    \/ gemini_chat_258(chat_replies)

SpecChat == ChatInit /\ [][ChatNext]_vars


(***************************************************************************)
(* The claims about the chat turn.                                         *)
(***************************************************************************)
\* The calls of function fn that the turn has made.
calls_of(fn) == SelectSeq(calls, LAMBDA c : c.fn = fn)

\* parse_tool_call has been called (on turn.response).
Parsed == calls_of("parse_tool_call") # <<>>

\* C11: parse_tool_call is total: whatever the text, it returns a tool call or
\* None and no exception leaves it.
C11_ParseIsTotal == Parsed => ~parse_tool_call(turn.response).raised /\ turn.pc # "raised"

\* C12: when the trimmed first reply decodes to a mapping with a "tool" key, the
\* call handed to execute_tool has that "tool" value as its name and, as its
\* parameters, the "parameters" value, or {} when "parameters" is absent or null.
C12_DispatchedCallIsDecodedCall ==
    Parsed =>
        LET data == json_loads(strip(turn.response))
        IN  (~data.raised /\ isinstance_dict(data.value) /\ "tool" \in DOMAIN data.value.v) =>
                /\ turn.pc \in {"line_248", "line_258", "returned", "raised"}
                /\ turn.tool_name = data.value.v["tool"]
                /\ turn.parameters =
                       IF "parameters" \in DOMAIN data.value.v
                          /\ data.value.v["parameters"] # PyNone
                         THEN data.value.v["parameters"]
                         ELSE EmptyDict


\* C13: when the first model reply does not parse as a tool call, the turn
\* returns that reply unmodified, without tool_used and tool_result; no tool is
\* executed and the model is not called a second time.
C13_PlainReplyIsReturnedVerbatim ==
    (Parsed /\ parse_tool_call(turn.response) = Return(PyNone)) =>
        /\ turn.pc = "returned"
        /\ turn.result = Return([reply |-> get_response(calls[1].answer).value])
        /\ Len(calls_of("requests.post")) = 1
        /\ calls_of("execute_tool") = <<>>
        /\ calls_of("client.get") = <<>>

\* C13: a reply with whitespace around it has been returned as it came.
C13_Witness ==
    /\ turn.pc = "returned"
    /\ turn.response = <<" ", "I think it's sunny today!", "\n">>
    /\ turn.result = Return([reply |-> <<" ", "I think it's sunny today!", "\n">>])


\* C14: one tool hop per turn: a turn executes at most one tool call and calls
\* the model at most twice; the follow-up reply is not parsed, so it is the
\* reply of the turn even when it is the JSON of a tool call.
C14_OneToolHopPerTurn ==
    LET posts == calls_of("requests.post")
    IN  /\ Len(calls_of("execute_tool")) <= 1
        /\ Len(calls_of("client.get")) <= 1
        /\ Len(calls_of("parse_tool_call")) <= 1
        /\ Len(posts) <= 2
        /\ Len(posts) = 2 =>
              /\ calls[Len(calls)] = posts[2]
              /\ turn.pc \in {"returned", "raised"}
              /\ turn.pc = "returned" =>
                    turn.result.value.reply = get_response(posts[2].answer).value

\* C14: a turn has returned a follow-up reply that is the JSON of a tool call.
C14_Witness ==
    /\ turn.pc = "returned"
    /\ Len(calls_of("requests.post")) = 2
    /\ Len(calls_of("execute_tool")) = 1
    /\ parse_tool_call(turn.result.value.reply) =
           Return(Dict([tool |-> Str("get_gmail")]))


\* C15: when the first model reply parses as a tool call, the turn executes it,
\* calls the model a second time with the result in the prompt, and returns the
\* second reply with tool_used = the name of the call and tool_result = the
\* result of execute_tool; an error result does the same and never ends the turn.
C15_ToolCallTurnReturnsResult ==
    Parsed =>
        LET tool_call == parse_tool_call(turn.response)
            executed == calls_of("execute_tool")
            posts == calls_of("requests.post")
        IN  (~tool_call.raised /\ tool_call.value # PyNone) =>
                /\ turn.pc \in {"line_248", "line_258", "returned", "raised"}
                /\ turn.pc # "line_248" =>
                      /\ Len(executed) = 1
                      /\ executed[1].arg.tool_name = tool_call.value.v["tool"]
                      /\ turn.tool_result =
                             execute_tool(executed[1].arg.tool_name,
                                          executed[1].arg.parameters,
                                          executed[1].answer).out.value
                /\ turn.pc \in {"returned", "raised"} =>
                      /\ Len(posts) = 2
                      /\ posts[2].arg = follow_up_prompt(tool_call.value.v["tool"],
                                                         turn.tool_result)
                /\ turn.pc = "raised" => get_response(posts[2].answer).raised
                /\ turn.pc = "returned" =>
                      turn.result = Return([reply |-> get_response(posts[2].answer).value,
                                            tool_used |-> tool_call.value.v["tool"],
                                            tool_result |-> turn.tool_result])

\* C15: a turn has returned the follow-up reply together with an error result.
C15_Witness ==
    /\ turn.pc = "returned"
    /\ Len(calls_of("requests.post")) = 2
    /\ turn.tool_result = Dict([error |-> fstr("Tool execution failed: ", Str("ConnectError"))])
    /\ turn.result.value.tool_result = turn.tool_result
    /\ turn.result.value.tool_used = Str("get_calendar_events")


\* The model call with this answer failed: the transport raised, or the model
\* service answered with another status than 200.
model_call_failed(answer) == answer.raised \/ answer.value.status_code # 200

\* C16: when the first or the second model call of a turn fails (transport
\* error, timeout, non-success response), the turn fails with the error and
\* returns no reply, and the model is not called again in that turn.
C16_ModelFailureFailsTurn ==
    \A i \in DOMAIN calls :
        (calls[i].fn = "requests.post" /\ model_call_failed(calls[i].answer)) =>
            /\ turn.pc = "raised"
            /\ \A j \in DOMAIN calls : j > i => calls[j].fn # "requests.post"


\* execute_tool has been called (with turn.tool_name and turn.parameters).
Executed == calls_of("execute_tool") # <<>>

\* The result of execute_tool is an error value {"error": message}.
IsError(result) == isinstance_dict(result) /\ "error" \in DOMAIN result.v

\* C17: execute_tool never throws: for every tool name, registered or not, and
\* every parameters value it returns a result or an error value; no exception
\* of the collaborator call or of the normalisation of its result leaves it.
C17_DispatchNeverThrows ==
    Executed => turn.pc = "line_258" /\ turn.tool_result # unbound

\* C17: the normalisation of a mail payload raised and an error was returned.
C17_Witness ==
    /\ Executed
    /\ turn.tool_name = Str("get_gmail")
    /\ execute_tool_134(turn.tool_name, turn.parameters,
                        calls_of("execute_tool")[1].answer).out = Raise("AttributeError")
    /\ turn.tool_result = Dict([error |-> fstr("Tool execution failed: ", Str("AttributeError"))])

\* The collaborator failed: the transport raised, or the tools application
\* answered with a non-success status.
collaborator_failed(answer) ==
    answer.raised \/ answer.value.status_code \notin 200..299

\* C18: for every tool, when the request to the collaborator fails in the
\* transport or is answered with a non-success status, execute_tool returns an
\* error value, never a result shaped like a success (an empty list of mails,
\* tasks or events).
C18_CollaboratorFailureIsError ==
    (/\ Executed
     /\ calls_of("client.get") # <<>>
     /\ collaborator_failed(calls_of("execute_tool")[1].answer)) =>
        turn.pc = "line_258" /\ IsError(turn.tool_result)

\* The messages of execute_tool that name parameter `param` as missing.
missing_parameter_messages(param) ==
    CASE param = "city" -> {Str("City parameter is required for weather info")}
      [] param = "query" -> {Str("Query parameter is required for search")}
      [] OTHER -> {}

\* C19: for every tool of the schema and every parameter it marks as required,
\* a call whose parameters lack it gets an error that names the parameter, and
\* no request is made to the collaborator.
C19_MissingRequiredParameter ==
    \A i \in DOMAIN llm_tools_schema :
        \A param \in llm_tools_schema[i].parameters.required :
            (/\ Executed
             /\ turn.tool_name = Str(llm_tools_schema[i].name)
             /\ isinstance_dict(turn.parameters)
             /\ param \notin DOMAIN turn.parameters.v) =>
                /\ turn.pc = "line_258"
                /\ IsError(turn.tool_result)
                /\ turn.tool_result.v["error"] \in missing_parameter_messages(param)
                /\ calls_of("client.get") = <<>>

\* C19: search was called with max_results and without query.
C19_Witness ==
    /\ Executed
    /\ turn.tool_name = Str("search")
    /\ turn.parameters = Dict([max_results |-> Int(5)])
    /\ turn.tool_result = Dict([error |-> Str("Query parameter is required for search")])
    /\ calls_of("client.get") = <<>>

\* The call can be handed to the collaborator of its tool: its parameters hold
\* a value for every parameter the schema requires.
has_required(tool, parameters) ==
    \A param \in tool.parameters.required :
        /\ isinstance_dict(parameters)
        /\ param \in DOMAIN parameters.v
        /\ bool(parameters.v[param])

\* C20: execute_tool returns the unknown-tool error exactly when the tool name
\* is not a name of the schema: a name of the schema goes to a collaborator
\* (one request, when the required parameters are there), any other name gets
\* the error and no request is made.
C20_UnknownToolIffUnregistered ==
    Executed =>
        LET registered == {i \in DOMAIN llm_tools_schema :
                              turn.tool_name = Str(llm_tools_schema[i].name)}
            unknown == turn.tool_result =
                           Dict([error |-> fstr("Unknown tool: ", turn.tool_name)])
        IN  /\ turn.pc = "line_258"
            /\ unknown <=> registered = {}
            /\ registered = {} => calls_of("client.get") = <<>>
            /\ \A i \in registered :
                  has_required(llm_tools_schema[i], turn.parameters) =>
                      Len(calls_of("client.get")) = 1

\* C20: a name that is not in the schema got the unknown-tool error.
C20_Witness ==
    /\ Executed
    /\ turn.tool_name = Str("fly_to_moon")
    /\ turn.tool_result = Dict([error |-> fstr("Unknown tool: ", Str("fly_to_moon"))])
    /\ calls_of("client.get") = <<>>

\* C21: for every tool of the schema and every optional parameter the call does
\* not carry, the request to the collaborator carries the default the schema
\* declares for that parameter.
C21_AbsentOptionalGetsDeclaredDefault ==
    \A i \in DOMAIN llm_tools_schema :
        LET tool == llm_tools_schema[i]
        IN  \A param \in tool.parameters.properties \ tool.parameters.required :
                (/\ Executed
                 /\ turn.tool_name = Str(tool.name)
                 /\ isinstance_dict(turn.parameters)
                 /\ param \notin DOMAIN turn.parameters.v
                 /\ calls_of("client.get") # <<>>) =>
                    LET query == calls_of("client.get")[1].arg.query.v
                    IN  /\ param \in DOMAIN query
                        /\ query[param] = tool.parameters.default[param]

(***************************************************************************)
(* The mail tools alone: execute_tool of get_gmail and get_outlook over    *)
(* payloads whose mails carry any of the keys the normalisation reads      *)
(* (subject, title, sender, senderName, from) and keys it does not (body,  *)
(* id), followed by the second model call.                                 *)
(***************************************************************************)
mail_header_keys == {"subject", "title", "sender", "senderName", "from"}

mails ==
    {parameters_of([subject |-> subject, title |-> title, sender |-> sender,
                    senderName |-> senderName, from |-> from, body |-> body]) :
        subject \in {absent, Str("Invoice"), Str("")},
        title \in {absent, Str("Re: lunch")},
        sender \in {absent, Str("Bob")},
        senderName \in {absent, Str("Bobby")},
        from \in {absent, Str("bob@example.com")},
        body \in {absent, Str("Hello"), Str("Wire 10k to account 12")}}

\* The bodies of GET /tools/gmail and GET /tools/outlook: no mail, one mail, or
\* two, with or without the other keys of the outlook body.
mail_payloads ==
    LET second == Dict([id |-> Int(7), subject |-> Str("Standup"),
                        from |-> Str("eve@example.com"), body |-> Str("See you at 9")])
        emails == {<<>>} \cup {<<mail>> : mail \in mails}
                         \cup {<<second, mail>> : mail \in mails}
    IN  {Dict([emails |-> List(e)]) : e \in emails}
        \cup {Dict([status |-> Str("success"), emails |-> List(e),
                    tasks |-> List(<<Dict([title |-> Str("Buy milk")])>>)]) : e \in emails}

mail_answers == {Return([status_code |-> 200, json |-> Return(data)]) : data \in mail_payloads}

mail_replies == {<<"You have mail.">>}

MailInit ==
    /\ no_supervisor
    /\ no_services
    /\ \E tool_name \in {Str("get_gmail"), Str("get_outlook")} :
         turn = [gemini_chat_at("line_248") EXCEPT
                    !.tool_call = Dict([tool |-> tool_name]),
                    !.tool_name = tool_name,
                    !.parameters = EmptyDict]
    /\ groq = [history |-> <<>>]
    /\ calls = <<>>

MailNext ==
    \/ gemini_chat_248(mail_answers)
    \/ gemini_chat_258(mail_replies)

SpecMail == MailInit /\ [][MailNext]_vars

\* What a payload says about subject and sender: its mails, in order, cut down
\* to the keys the subject and the sender are taken from.
mail_headers(answer) ==
    LET emails == answer.value.json.value.v["emails"].v
    IN  [i \in DOMAIN emails |->
            [k \in DOMAIN emails[i].v \cap mail_header_keys |-> emails[i].v[k]]]

C24_FailedLaunchAnswersStarting ==
    \A t \in Handlers :
        (/\ pc[t] = "gw_258"
         /\ outcome[t] \in {"no_entry", "spawn_error"}
         /\ ~TrackedLive) =>
            \A file \in messages_json :
                get_whatsapp_259(file) = [response |-> "http_200", body |-> not_ready]

MaxRegistrations == 3

\* Lines 8-18: register(name, description, parameters) applied to func.
register(name, description, parameters, func) ==
    /\ Len(schema) < MaxRegistrations
    /\ tools' = [n \in DOMAIN tools \cup {name} |-> IF n = name THEN func ELSE tools[n]]
    /\ schema' = Append(schema, [name |-> name, description |-> description,
                                  parameters |-> parameters])
    /\ UNCHANGED <<supervisor_vars, chat_vars, outlook_vars, notification_vars>>

\* Lines 20-21.
get_schema == schema

RegistryInit ==
    /\ no_supervisor
    /\ no_chat
    /\ no_services

RegistryNext ==
    \E name \in {"search", "get_tasks", "get_gmail"} :
        \E description \in {"Search the web.", "Search the web with DuckDuckGo."} :
            \E func \in {"search", "search_v2"} :
                register(name, description, EmptyDict, func)

SpecRegistry == RegistryInit /\ [][RegistryNext]_vars

\* C23: after any sequence of register calls the schema holds exactly one
\* descriptor per registered name, the one registered last for that name, the
\* names in the order of their registration.
C23_OneDescriptorPerName ==
    /\ Len(get_schema) = Cardinality(DOMAIN tools)
    /\ \A i, j \in DOMAIN get_schema :
          get_schema[i].name = get_schema[j].name => i = j

\* Text T inside a fenced code block: the opening fence line (with a language
\* label or without), the lines of T, the closing fence line.
fenced(T, label) == <<fence>> \o label \o <<"\n">> \o T \o <<"\n", fence>>

\* C27: fence stripping is transparent: for every text T whose first line is not a
\* fence marker, parse_tool_call of T inside a fenced code block returns what
\* parse_tool_call of T returns.
C27_FenceStrippingIsTransparent ==
    Parsed =>
        LET T == turn.response
        IN  ~startswith(split(T)[1], fence) =>
                \A label \in {<<>>, <<"json">>} :
                    parse_tool_call(fenced(T, label)) = parse_tool_call(T)

(***************************************************************************)
(* The Microsoft poller: GET /outlook of src/src/tools/tools_app.py (a     *)
(* plain `def`, run in worker threads 1..NumHandlers) calling              *)
(* get_new_emails, get_upcoming_events and get_pending_tasks of            *)
(* src/src/tools/microsoft_listener/api_fetch.py, on behalf of the tool    *)
(* execute_tool is dispatching.  seen_events and seen_tasks are module     *)
(* globals shared by the threads; the test of a membership and the add     *)
(* that follows it are two steps.                                          *)
(***************************************************************************)
\* Number of requests followed (GET /outlook; GET /notifications/email).
MaxPolls == 3

\* What Microsoft Graph answers to every query: the ids of the events of the
\* calendar and of the tasks that are not completed.
graph_events == <<"event-1", "event-2">>
graph_tasks == <<"task-1">>

\* The tools of execute_tool that request GET /tools/outlook (lines 147-169).
outlook_tools == {"get_outlook", "get_tasks", "get_calendar_events"}

\* Lines 150-152 of get_outlook and 29-36 of get_upcoming_events: a request made
\* for `tool` arrives at thread t; the events are fetched.  `overlapped` notes
\* whether another request is served at some time while this one is.
get_outlook_150(t, tool) ==
    /\ outlook[t].pc = "idle"
    /\ Len(polls) + Cardinality({u \in Handlers : outlook[u].pc # "idle"}) < MaxPolls
    /\ LET busy == {u \in Handlers : outlook[u].pc # "idle"}
       IN  outlook' = [u \in Handlers |->
                         IF u = t
                           THEN [pc |-> "line_39", tool |-> tool, resp |-> graph_events,
                                 new_events |-> <<>>, all_tasks |-> <<>>,
                                 new_tasks |-> <<>>, overlapped |-> busy # {}]
                         ELSE IF u \in busy THEN [outlook[u] EXCEPT !.overlapped = TRUE]
                         ELSE outlook[u]]
    /\ UNCHANGED <<seen_events, seen_tasks, polls>>
    /\ UNCHANGED <<supervisor_vars, chat_vars, registry_vars, notification_vars>>

\* get_upcoming_events, line 39: `if ev["id"] not in seen_events` for the next
\* event; after the last event, lines 73-79 of get_pending_tasks fetch the tasks.
get_upcoming_events_39(t) ==
    /\ outlook[t].pc = "line_39"
    /\ outlook' = [outlook EXCEPT ![t] =
                      IF @.resp = <<>>
                        THEN [@ EXCEPT !.pc = "line_86", !.resp = graph_tasks]
                      ELSE IF Head(@.resp) \notin seen_events
                        THEN [@ EXCEPT !.pc = "line_40"]
                      ELSE [@ EXCEPT !.resp = Tail(@)]]
    /\ UNCHANGED <<seen_events, seen_tasks, polls>>
    /\ UNCHANGED <<supervisor_vars, chat_vars, registry_vars, notification_vars>>

\* get_upcoming_events, lines 40-41: new_events.append(ev);
\* seen_events.add(ev["id"]).
get_upcoming_events_40(t) ==
    /\ outlook[t].pc = "line_40"
    /\ LET ev == Head(outlook[t].resp)
       IN  /\ seen_events' = seen_events \cup {ev}
           /\ outlook' = [outlook EXCEPT ![t] =
                             [@ EXCEPT !.pc = "line_39", !.resp = Tail(@),
                                       !.new_events = Append(@, ev)]]
    /\ UNCHANGED <<seen_tasks, polls>>
    /\ UNCHANGED <<supervisor_vars, chat_vars, registry_vars, notification_vars>>

\* get_pending_tasks, lines 85-86: all_tasks.append(task) and
\* `if task["id"] not in seen_tasks` for the next task.
get_pending_tasks_86(t) ==
    /\ outlook[t].pc = "line_86"
    /\ outlook[t].resp # <<>>
    /\ outlook' = [outlook EXCEPT ![t] =
                      IF Head(@.resp) \notin seen_tasks
                        THEN [@ EXCEPT !.pc = "line_87",
                                       !.all_tasks = Append(@, Head(outlook[t].resp))]
                        ELSE [@ EXCEPT !.resp = Tail(@),
                                       !.all_tasks = Append(@, Head(outlook[t].resp))]]
    /\ UNCHANGED <<seen_events, seen_tasks, polls>>
    /\ UNCHANGED <<supervisor_vars, chat_vars, registry_vars, notification_vars>>

\* get_pending_tasks, lines 87-88: new_tasks.append(task);
\* seen_tasks.add(task["id"]).
get_pending_tasks_87(t) ==
    /\ outlook[t].pc = "line_87"
    /\ LET task == Head(outlook[t].resp)
       IN  /\ seen_tasks' = seen_tasks \cup {task}
           /\ outlook' = [outlook EXCEPT ![t] =
                             [@ EXCEPT !.pc = "line_86", !.resp = Tail(@),
                                       !.new_tasks = Append(@, task)]]
    /\ UNCHANGED <<seen_events, polls>>
    /\ UNCHANGED <<supervisor_vars, chat_vars, registry_vars, notification_vars>>

\* {"id": id} for every id of ids.
items(ids) == List([i \in DOMAIN ids |-> Dict([id |-> Str(ids[i])])])

\* Lines 153-160 of get_outlook: the body of the response.
get_outlook_153(request) ==
    Dict([status |-> Str("success"), emails |-> List(<<>>),
          events |-> items(request.new_events), reminders |-> List(<<>>),
          tasks |-> items(request.all_tasks), new_tasks |-> items(request.new_tasks)])

\* Lines 153-160 of get_outlook: the response is returned to execute_tool.
get_outlook_160(t) ==
    /\ outlook[t].pc = "line_86"
    /\ outlook[t].resp = <<>>
    /\ polls' = Append(polls, [tool |-> outlook[t].tool,
                                body |-> get_outlook_153(outlook[t]),
                                overlapped |-> outlook[t].overlapped])
    /\ outlook' = [outlook EXCEPT ![t] = [pc |-> "idle"]]
    /\ UNCHANGED <<seen_events, seen_tasks>>
    /\ UNCHANGED <<supervisor_vars, chat_vars, registry_vars, notification_vars>>

OutlookInit ==
    /\ no_supervisor
    /\ no_chat
    /\ no_services

OutlookNext ==
    \E t \in Handlers :
        \/ \E tool \in outlook_tools : get_outlook_150(t, tool)
        \/ get_upcoming_events_39(t)
        \/ get_upcoming_events_40(t)
        \/ get_pending_tasks_86(t)
        \/ get_pending_tasks_87(t)
        \/ get_outlook_160(t)

SpecOutlook == OutlookInit /\ [][OutlookNext]_vars

\* The ids under `key` in the body of poll i.
polled_ids(i, key) ==
    LET listed == polls[i].body.v[key].v
    IN  {listed[k].v["id"].v : k \in DOMAIN listed}

\* C26: every calendar event id, and every task id of new_tasks, is reported as
\* new by at most one GET /outlook of the process, also when several requests
\* run concurrently.
C26_ReportedNewAtMostOnce ==
    \A i, j \in DOMAIN polls :
        i # j =>
            /\ polled_ids(i, "events") \cap polled_ids(j, "events") = {}
            /\ polled_ids(i, "new_tasks") \cap polled_ids(j, "new_tasks") = {}

\* The ids of the events execute_tool returns for poll i, the dispatch of
\* polls[i].tool that was answered with polls[i].body.
dispatched_events(i) ==
    LET answer == Return([status_code |-> 200, json |-> Return(polls[i].body)])
        result == execute_tool(Str(polls[i].tool), EmptyDict, answer).out.value
        events == IF isinstance_dict(result) /\ "events" \in DOMAIN result.v
                    THEN result.v["events"].v ELSE <<>>
    IN  {events[k].v["id"].v : k \in DOMAIN events}

\* C28: dispatching get_tasks or get_outlook does not consume the events of
\* get_calendar_events: an event of the calendar that no get_calendar_events
\* dispatch has returned yet is returned by the next get_calendar_events dispatch
\* (the dispatches made one after the other).
C28_OtherToolsLeaveEventsUnreported ==
    \A j \in DOMAIN polls :
        (/\ polls[j].tool = "get_calendar_events"
         /\ \A k \in 1..j : ~polls[k].overlapped) =>
            \A n \in DOMAIN graph_events :
                (\A k \in 1..(j - 1) :
                    polls[k].tool = "get_calendar_events" =>
                        graph_events[n] \notin dispatched_events(k))
                  => graph_events[n] \in dispatched_events(j)

(***************************************************************************)
(* The email notification service of                                       *)
(* src/src/notifications/notification_system_app.py: the poller thread     *)
(* started at startup and GET /notifications/email, a plain `def` run in   *)
(* worker threads 1..NumHandlers.  list.extend, list.copy and list.clear   *)
(* are atomic; the threads interleave between them.  An email is the       *)
(* number of its arrival.                                                  *)
(***************************************************************************)
\* Number of emails that arrive.
MaxEmails == 2

\* poll_emails, lines 22-24: get_new_email_subject_and_body(service) returns the
\* n unread emails (and marks them read); they are appended to the pending list.
poll_emails_22(n) ==
    /\ polled + n <= MaxEmails
    /\ email_notifications' = email_notifications \o [i \in 1..n |-> polled + i]
    /\ polled' = polled + n
    /\ UNCHANGED <<notifications, delivered>>
    /\ UNCHANGED <<supervisor_vars, chat_vars, registry_vars, outlook_vars>>

\* get_email_notifications, line 40: notifications = email_notifications.copy().
get_email_notifications_40(t) ==
    /\ notifications[t].pc = "idle"
    /\ Len(delivered) + Cardinality({u \in Handlers : notifications[u].pc # "idle"})
         < MaxPolls
    /\ notifications' = [notifications EXCEPT ![t] =
                            [pc |-> "line_41", notifications |-> email_notifications]]
    /\ UNCHANGED <<email_notifications, delivered, polled>>
    /\ UNCHANGED <<supervisor_vars, chat_vars, registry_vars, outlook_vars>>

\* get_email_notifications, lines 41-42: email_notifications.clear(); return
\* notifications.
get_email_notifications_41(t) ==
    /\ notifications[t].pc = "line_41"
    /\ email_notifications' = <<>>
    /\ delivered' = Append(delivered, notifications[t].notifications)
    /\ notifications' = [notifications EXCEPT ![t] = [pc |-> "idle"]]
    /\ UNCHANGED polled
    /\ UNCHANGED <<supervisor_vars, chat_vars, registry_vars, outlook_vars>>

NotificationInit ==
    /\ no_supervisor
    /\ no_chat
    /\ no_services

NotificationNext ==
    \/ \E n \in 1..MaxEmails : poll_emails_22(n)
    \/ \E t \in Handlers : get_email_notifications_40(t)
    \/ \E t \in Handlers : get_email_notifications_41(t)

SpecNotification == NotificationInit /\ [][NotificationNext]_vars

\* The places of email e in list `emails`.
places(emails, e) == {i \in DOMAIN emails : emails[i] = e}

\* C30: every email the poller has appended to the pending list is returned by
\* exactly one GET /notifications/email: none is returned twice, and none is lost
\* (an email no response has returned is still pending or in the list a request
\* in progress is about to return).
C30_EachEmailReturnedOnce ==
    \A e \in 1..polled :
        LET returns == {i \in DOMAIN delivered : places(delivered[i], e) # {}}
            held == {t \in Handlers : /\ notifications[t].pc = "line_41"
                                      /\ places(notifications[t].notifications, e) # {}}
        IN  /\ Cardinality(returns) <= 1
            /\ \A i \in returns : Cardinality(places(delivered[i], e)) = 1
            /\ returns = {} => (places(email_notifications, e) # {} \/ held # {})

====
